---- MODULE Spec2Model ----
(***************************************************************************)
(* A model of package daytime (src/daytime.go): the Daytime value type,    *)
(* a count of seconds since midnight in [0, 86400], with its comparison    *)
(* and arithmetic operations.                                              *)
(*                                                                         *)
(* The package is a library of pure functions on a value type.  The state  *)
(* machine below is a caller holding one Daytime (cur) and calling one     *)
(* operation per step; the call, its receiver, its arguments and what it   *)
(* returned are kept in the state so that the properties of each function  *)
(* are state predicates.  An arithmetic call that returns a Daytime        *)
(* replaces the value the caller holds (d, _ = d.Add(s)).                  *)
(*                                                                         *)
(* Go's int is 64 bits wide on the usual targets; all totals of the model  *)
(* stay far below that width, so int arithmetic is exact here.             *)
(***************************************************************************)
EXTENDS Integers, Sequences, FiniteSets, TLC

VARIABLES cur, op, recv, arg1, arg2, ret, steps

vars == <<cur, op, recv, arg1, arg2, ret, steps>>

(***************************************************************************)
(* Program constants.                                                      *)
(***************************************************************************)
secondsInDay == 86400

hoursInDay == 24

StartOfDay == 0

EndOfDay == secondsInDay

ErrDivisionByZero == "division by zero"

ErrInvalidTimeComponent == "invalid time component"

ErrInvalidFormat == "invalid format"

ErrValueOutOfRange == "value out of range"

ErrInvalidModulus == "modulus must be positive"

ErrEndOfDayExceeded == "daytime 24:00:00 must have zero minutes and seconds"

(***************************************************************************)
(* Bounds of the model.                                                    *)
(***************************************************************************)
\* inputs lie within Edge of an anchor value
Edge == 1

\* second counts reach MaxHalfDays half days in both directions
MaxHalfDays == 4

\* factors, divisors and moduli in -MaxFactor..MaxFactor
MaxFactor == 7

\* calls made in a row on the value the caller holds
MaxSteps == 1

\* base dates run over the days 1..MaxBaseDay since the epoch
MaxBaseDay == 2

Near(S) == { a + j : a \in S, j \in -Edge..Edge }

\* receivers and Daytime arguments: valid values around the start, the
\* middle and the end of the day, and invalid ones past the end
DaytimeInputs == { x \in Near({0, 43200, secondsInDay}) : x >= 0 }

\* second counts around every multiple of half a day
SecondInputs == Near({ k * 43200 : k \in -MaxHalfDays..MaxHalfDays })

\* hour, minute and second components around the ends of their ranges
HourInputs == Near({0, hoursInDay})

MinuteInputs == Near({0, 59})

Factors == -MaxFactor..MaxFactor

\* divisors and moduli: small ones and ones larger than a day
DivisorInputs == Factors \cup SecondInputs

(***************************************************************************)
(* Go's integer division truncates toward zero and the remainder takes the *)
(* sign of the dividend; TLA+'s \div and % are floored.                    *)
(***************************************************************************)
Abs(x) == IF x < 0 THEN -x ELSE x

Quo(a, b) ==
    IF (a >= 0) = (b > 0) THEN Abs(a) \div Abs(b) ELSE -(Abs(a) \div Abs(b))

Rem(a, b) == a - b * Quo(a, b)

(***************************************************************************)
(* Errors: the structured Error{op, value, err}; nil is the absent error.  *)
(***************************************************************************)
nil == [op |-> "", value |-> 0, err |-> "nil"]

errorf(o, value, err) == [op |-> o, value |-> value, err |-> err]

(***************************************************************************)
(* Text is a sequence of one-character strings.  Formatting as fmt.Sprintf *)
(* does it for the verbs %d and %02d.                                      *)
(***************************************************************************)
Digits == <<"0", "1", "2", "3", "4", "5", "6", "7", "8", "9">>

RECURSIVE Itoa(_)
\* the decimal digits of n >= 0
Itoa(n) ==
    IF n < 10 THEN <<Digits[n + 1]>>
    ELSE Itoa(n \div 10) \o <<Digits[(n % 10) + 1]>>

\* %02d: at least two characters, the sign counted, zeros after the sign
Pad2(n) ==
    IF n < 0 THEN <<"-">> \o Itoa(-n)
    ELSE IF n < 10 THEN <<"0">> \o Itoa(n)
    ELSE Itoa(n)

\* fmt.Sprintf("%02d:%02d:%02d", hour, minute, second)
FormatClock(hour, minute, second) ==
    Pad2(hour) \o <<":">> \o Pad2(minute) \o <<":">> \o Pad2(second)

\* fmt's %d of any int
FormatInt(n) == IF n < 0 THEN <<"-">> \o Itoa(-n) ELSE Itoa(n)

(***************************************************************************)
(* Scanning text as strconv.Atoi and fmt.Sscanf do it.  The texts of the   *)
(* model are at most 9 characters long, so no scanned number overflows.    *)
(***************************************************************************)
IsDigit(c) == \E i \in 1..10 : Digits[i] = c

DigitVal(c) == (CHOOSE i \in 1..10 : Digits[i] = c) - 1

RECURSIVE DecimalValue(_)
\* the value of a non-empty sequence of digits
DecimalValue(t) ==
    IF Len(t) = 1 THEN DigitVal(t[1])
    ELSE DecimalValue(SubSeq(t, 1, Len(t) - 1)) * 10 + DigitVal(t[Len(t)])

\* strconv.Atoi: an optional sign and then digits only, at least one
Atoi(t) ==
    LET signed == t # <<>> /\ t[1] \in {"+", "-"}
        body == IF signed THEN Tail(t) ELSE t
    IN  IF body = <<>> \/ \E i \in 1..Len(body) : ~IsDigit(body[i])
        THEN [ok |-> FALSE, n |-> 0]
        ELSE [ok |-> TRUE,
              n |-> IF signed /\ t[1] = "-" THEN -DecimalValue(body)
                    ELSE DecimalValue(body)]

RECURSIVE SkipSpace(_, _)
\* the first position from i on that holds no space
SkipSpace(t, i) ==
    IF i <= Len(t) /\ t[i] = " " THEN SkipSpace(t, i + 1) ELSE i

RECURSIVE ScanDigits(_, _)
\* the first position from i on that holds no digit
ScanDigits(t, i) ==
    IF i <= Len(t) /\ IsDigit(t[i]) THEN ScanDigits(t, i + 1) ELSE i

\* the verb %d at position i: spaces skipped, an optional sign, then digits,
\* at least one; next is the position after the number
ScanInt(t, i) ==
    LET j == SkipSpace(t, i)
        k == IF j <= Len(t) /\ t[j] \in {"+", "-"} THEN j + 1 ELSE j
        e == ScanDigits(t, k)
    IN  IF j > Len(t) \/ e = k
        THEN [ok |-> FALSE, n |-> 0, next |-> k]
        ELSE [ok |-> TRUE,
              n |-> IF k > j /\ t[j] = "-" THEN -DecimalValue(SubSeq(t, k, e - 1))
                    ELSE DecimalValue(SubSeq(t, k, e - 1)),
              next |-> e]

\* a literal character of the format at position i
ScanLiteral(t, i, c) == i <= Len(t) /\ t[i] = c

\* fmt.Sscanf(s, "%d:%d:%d", &hour, &minute, &second): n is the number of
\* items scanned, ok the absence of an error; input after the third number
\* is not looked at
Sscanf3(t) ==
    LET h == ScanInt(t, 1)
        m == ScanInt(t, h.next + 1)
        s == ScanInt(t, m.next + 1)
        none == [hour |-> 0, minute |-> 0, second |-> 0]
    IN  IF ~h.ok THEN [n |-> 0, ok |-> FALSE] @@ none
        ELSE IF ~ScanLiteral(t, h.next, ":") \/ ~m.ok
        THEN [n |-> 1, ok |-> FALSE, hour |-> h.n, minute |-> 0, second |-> 0]
        ELSE IF ~ScanLiteral(t, m.next, ":") \/ ~s.ok
        THEN [n |-> 2, ok |-> FALSE, hour |-> h.n, minute |-> m.n, second |-> 0]
        ELSE [n |-> 3, ok |-> TRUE, hour |-> h.n, minute |-> m.n, second |-> s.n]

(***************************************************************************)
(* Texts given to the parsing functions.                                   *)
(***************************************************************************)
\* minutes and seconds written in the texts: the ends of the range and the
\* first value past it
ClockFieldInputs == {0, 1, 59, 60}

\* texts in clock form, among them ones with a component out of range
TimeTexts ==
    { FormatClock(h, m, s) :
        h \in HourInputs, m \in ClockFieldInputs, s \in ClockFieldInputs }

\* texts of integers, among them negative ones and ones above a day
SecondTexts ==
    { FormatInt(n) : n \in SecondInputs \cup (-MaxFactor..MaxFactor) }

\* texts that are neither: short, long, signed, spaced, with other characters
LooseTexts ==
    {
      <<>>,
      <<"1", ":", "2", ":", "3">>,
      <<"1", "2", ":", "3", "0">>,
      <<"1", ":", "2">>,
      <<"1", ":", "2", ":", "3", "x", "x", "x">>,
      <<"+", "1", ":", "0", "2", ":", "0", "3">>,
      <<" ", "1", ":", "0", "2", ":", "0", "3">>,
      <<"1", ":", "0", "2", ":", "0", "0", "3">>,
      <<"0", "0", "1", ":", "2", ":", "0", "3">>,
      <<"1", ":", " ", "2", ":", " ", "0", "3">>,
      <<"1", "x", ":", "2", "x", ":", "3", "x">>,
      <<"1", "2", ":", "3", "0", ":", "4", "x">>,
      <<"1", "2", "-", "3", "0", "-", "4", "5">>,
      <<"1", "2", ":", "3", "0", ":", "4", "5", "x">>,
      <<"x", "2", ":", "3", "0", ":", "4", "5">>,
      <<"1", "2", ":", "3", "0", ":", "4", "5">>,
      <<"1", "0", ":", "3", "0", ":", "1", "5">>,
      <<"1", "2", "3", "4">>,
      <<"+", "1", "2", "3", "4">>,
      <<"0", "0", "0", "1", "2", "3", "4">>,
      <<"0", "0", "0", "0", "0", "0", "0", "0">>,
      <<"1", ".", "5">>,
      <<"x", "x", "x">>,
      <<"i", "n", "v", "a", "l", "i", "d">>,
      <<"1", "2", ":", "3", "0", ":">>,
      <<"1", "2", ":", ":", "0", ":", "4", "5">>,
      <<"2", "4", ":", "0", ":", "0", "0", "0">>,
      <<"+", "2", "4", ":", "0", ":", "0", "1">>
    }

TextInputs == TimeTexts \cup SecondTexts \cup LooseTexts

(***************************************************************************)
(* Validity.                                                               *)
(***************************************************************************)
Valid(d) == d <= EndOfDay

(***************************************************************************)
(* Creation.                                                               *)
(***************************************************************************)
\* the hour 24 rejected by the range check
NewRejects24(hour, minute, second) ==
    IF \/ hour < 0 \/ hour >= hoursInDay
       \/ minute < 0 \/ minute > 59
       \/ second < 0 \/ second > 59
    THEN [daytime |-> 0,
          err |-> errorf("New", FormatClock(hour, minute, second),
                         ErrInvalidTimeComponent)]
    ELSE
        LET total == hour * 3600 + minute * 60 + second
        IN  [daytime |-> total, err |-> nil]

\* the end-of-day check made before the range check
NewEndOfDayCheckFirst(hour, minute, second) ==
    IF hour = hoursInDay /\ (minute # 0 \/ second # 0)
    THEN [daytime |-> 0,
          err |-> errorf("New", FormatClock(hour, minute, second),
                         ErrEndOfDayExceeded)]
    ELSE IF \/ hour < 0 \/ hour > hoursInDay
            \/ minute < 0 \/ minute > 59
            \/ second < 0 \/ second > 59
    THEN [daytime |-> 0,
          err |-> errorf("New", FormatClock(hour, minute, second),
                         ErrInvalidTimeComponent)]
    ELSE
        LET total == hour * 3600 + minute * 60 + second
        IN  IF total > secondsInDay THEN [daytime |-> EndOfDay, err |-> nil]
            ELSE [daytime |-> total, err |-> nil]

New(hour, minute, second) ==
    IF \/ hour < 0 \/ hour > hoursInDay
       \/ minute < 0 \/ minute > 59
       \/ second < 0 \/ second > 59
    THEN [daytime |-> 0,
          err |-> errorf("New", FormatClock(hour, minute, second),
                         ErrInvalidTimeComponent)]
    ELSE IF hour = hoursInDay /\ (minute # 0 \/ second # 0)
    THEN [daytime |-> 0,
          err |-> errorf("New", FormatClock(hour, minute, second),
                         ErrEndOfDayExceeded)]
    ELSE
        LET total == hour * 3600 + minute * 60 + second
        IN  IF total > secondsInDay THEN [daytime |-> EndOfDay, err |-> nil]
            ELSE [daytime |-> total, err |-> nil]

(***************************************************************************)
(* Parsing.                                                                *)
(***************************************************************************)
\* the range check of the seconds left out
parseSecondsNoRange(t) ==
    LET a == Atoi(t)
    IN  IF ~a.ok
        THEN [sec |-> 0, err |-> errorf("parseSeconds", t, ErrInvalidFormat)]
        ELSE [sec |-> a.n, err |-> nil]

\* the upper end of the range excluded
parseSecondsExclusiveEnd(t) ==
    LET a == Atoi(t)
    IN  IF ~a.ok
        THEN [sec |-> 0, err |-> errorf("parseSeconds", t, ErrInvalidFormat)]
        ELSE IF a.n < 0 \/ a.n >= secondsInDay
        THEN [sec |-> 0, err |-> errorf("parseSeconds", a.n, ErrValueOutOfRange)]
        ELSE [sec |-> a.n, err |-> nil]

parseSeconds(t) ==
    LET a == Atoi(t)
    IN  IF ~a.ok
        THEN [sec |-> 0, err |-> errorf("parseSeconds", t, ErrInvalidFormat)]
        ELSE IF a.n < 0 \/ a.n > secondsInDay
        THEN [sec |-> 0, err |-> errorf("parseSeconds", a.n, ErrValueOutOfRange)]
        ELSE [sec |-> a.n, err |-> nil]

\* the component rules of parseTimeString, applied to the scanned numbers
parseComponents(hour, minute, second) ==
    LET total == hour * 3600 + minute * 60 + second
        text == FormatClock(hour, minute, second)
    IN  IF \/ hour < 0 \/ hour > hoursInDay
           \/ minute < 0 \/ minute > 59
           \/ second < 0 \/ second > 59
        THEN [sec |-> 0,
              err |-> errorf("parseTimeString", text, ErrInvalidTimeComponent)]
        ELSE IF hour = hoursInDay /\ (minute # 0 \/ second # 0)
        THEN [sec |-> 0,
              err |-> errorf("parseTimeString", text, ErrEndOfDayExceeded)]
        ELSE IF total > secondsInDay
        THEN [sec |-> 0,
              err |-> errorf("parseTimeString", text, ErrValueOutOfRange)]
        ELSE [sec |-> total, err |-> nil]

\* parseTimeString after the scan sc of the text
parseScanned(t, sc) ==
    IF ~sc.ok \/ sc.n # 3
    THEN [sec |-> 0, err |-> errorf("parseTimeString", t, ErrInvalidFormat)]
    ELSE parseComponents(sc.hour, sc.minute, sc.second)

parseTimeString(t) ==
    IF Len(t) # 8
    THEN [sec |-> 0, err |-> errorf("parseTimeString", t, ErrInvalidFormat)]
    ELSE parseScanned(t, Sscanf3(t))

\* Parse after the empty text is refused: the seconds strategy, then the
\* clock strategy, then the failure that replaces the errors of both
parseStrategies(t, bySeconds, byClock) ==
    IF bySeconds.err.err = "nil"
    THEN [daytime |-> bySeconds.sec, err |-> nil]
    ELSE IF byClock.err.err = "nil"
    THEN [daytime |-> byClock.sec, err |-> nil]
    ELSE [daytime |-> 0, err |-> errorf("Parse", t, ErrInvalidFormat)]

Parse(t) ==
    IF t = <<>>
    THEN [daytime |-> 0, err |-> errorf("Parse", t, ErrInvalidFormat)]
    ELSE parseStrategies(t, parseSeconds(t), parseTimeString(t))

\* UnmarshalText given the result p of Parse: every failure is reported as
\* InvalidFormat with the receiver left at StartOfDay
unmarshalResult(t, p) ==
    IF p.err.err = "nil" THEN [daytime |-> p.daytime, err |-> nil]
    ELSE [daytime |-> StartOfDay,
          err |-> errorf("UnmarshalText", t, ErrInvalidFormat)]

\* UnmarshalText on a zero receiver: the two-strategy parse
UnmarshalText(t) == unmarshalResult(t, Parse(t))

(***************************************************************************)
(* Components and text.                                                    *)
(***************************************************************************)
\* the minute taken from the whole second count
ClockMinuteOfDay(d) ==
    IF d = EndOfDay
    THEN [hour |-> hoursInDay, minute |-> 0, second |-> 0]
    ELSE [hour |-> Quo(d, 3600),
          minute |-> Quo(d, 60),
          second |-> Rem(d, 60)]

Clock(d) ==
    IF d = EndOfDay
    THEN [hour |-> hoursInDay, minute |-> 0, second |-> 0]
    ELSE [hour |-> Quo(d, 3600),
          minute |-> Quo(Rem(d, 3600), 60),
          second |-> Rem(d, 60)]

\* the fields written without zero padding
StringUnpadded(d) ==
    IF ~Valid(d) THEN <<"i", "n", "v", "a", "l", "i", "d">>
    ELSE IF d = EndOfDay THEN <<"2", "4", ":", "0", "0", ":", "0", "0">>
    ELSE FormatInt(Clock(d).hour) \o <<":">> \o FormatInt(Clock(d).minute)
             \o <<":">> \o FormatInt(Clock(d).second)

String(d) ==
    IF ~Valid(d) THEN <<"i", "n", "v", "a", "l", "i", "d">>
    ELSE IF d = EndOfDay THEN <<"2", "4", ":", "0", "0", ":", "0", "0">>
    ELSE FormatClock(Clock(d).hour, Clock(d).minute, Clock(d).second)

(***************************************************************************)
(* Absolute timestamps, as the time package gives them.  A timestamp is    *)
(* <<unix, loc>>: seconds since the epoch and a location.  A calendar date *)
(* is the number of its day since the epoch.  The locations: UTC, a fixed  *)
(* zone three hours east, and two zones one hour east whose clocks change  *)
(* by an hour on day 2, at 01:00 UTC: Spring from 02:00 to 03:00 local,    *)
(* Fall from 03:00 to 02:00 local.                                         *)
(***************************************************************************)
Locations == {"UTC", "Fixed", "Spring", "Fall"}

\* locations whose offset changes
ClockChanges(loc) == loc \in {"Spring", "Fall"}

\* the instant of the change of offset
zoneTransition == 2 * secondsInDay + 3600

\* the offset from UTC in force in loc at the instant unix
zoneOffset(loc, unix) ==
    CASE loc = "UTC" -> 0
      [] loc = "Fixed" -> 3 * 3600
      [] loc = "Spring" -> IF unix < zoneTransition THEN 3600 ELSE 2 * 3600
      [] loc = "Fall" -> IF unix < zoneTransition THEN 2 * 3600 ELSE 3600

\* a and b lie in the same period of constant offset of loc
samePeriod(loc, a, b) ==
    ~ClockChanges(loc) \/ ((a < zoneTransition) = (b < zoneTransition))

\* seconds since the epoch on the wall clock of t's location
localSeconds(t) == t[1] + zoneOffset(t[2], t[1])

\* t.Date(): the day of t on the calendar of its location
timeDate(t) == localSeconds(t) \div secondsInDay

\* t.Clock(): hour, minute and second on the wall clock of its location
timeClock(t) ==
    [hour |-> (localSeconds(t) % secondsInDay) \div 3600,
     minute |-> ((localSeconds(t) % secondsInDay) % 3600) \div 60,
     second |-> localSeconds(t) % 60]

\* t.Add(d) for a duration of whole seconds
timeAdd(t, seconds) == <<t[1] + seconds, t[2]>>

\* the offset time.Date subtracts from the wall-clock seconds unix: the one
\* in force at unix read as an instant, looked up again at the instant it
\* gives when that falls in another period
dateOffset(loc, unix, offset) ==
    IF offset # 0 /\ ~samePeriod(loc, unix - offset, unix)
    THEN zoneOffset(loc, unix - offset)
    ELSE offset

\* time.Date(year, month, day, hour, minute, second, 0, loc), the date given
\* as its day number; components out of range carry over
timeDateOf(day, hour, minute, second, loc) ==
    LET unix == day * secondsInDay + hour * 3600 + minute * 60 + second
    IN  <<unix - dateOffset(loc, unix, zoneOffset(loc, unix)), loc>>

Time(d, base) ==
    IF d = EndOfDay
    THEN timeAdd(timeDateOf(timeDate(base), 0, 0, 0, base[2]), 24 * 3600)
    ELSE timeDateOf(timeDate(base), Clock(d).hour, Clock(d).minute,
                    Clock(d).second, base[2])

fromTime(t) ==
    timeClock(t).hour * 3600 + timeClock(t).minute * 60 + timeClock(t).second

FromTime(t) == fromTime(t)

\* timestamps given to FromTime: around the start, the middle and the end
\* of the days 1 to MaxBaseDay in every location
TimestampInputs ==
    { <<day * secondsInDay + s, loc>> :
        day \in 1..MaxBaseDay, s \in DaytimeInputs, loc \in Locations }

\* base timestamps given to Time: midnight and noon UTC of those days
BaseInputs ==
    { <<day * secondsInDay + s, loc>> :
        day \in 1..MaxBaseDay, s \in {0, 43200}, loc \in Locations }

(***************************************************************************)
(* Ordering and comparison.                                                *)
(***************************************************************************)
\* the check of the other operand against EndOfDay left out
BeforeRawOnly(d, other) ==
    IF d = EndOfDay THEN FALSE
    ELSE d < other

\* the check of the receiver against EndOfDay left out
BeforeNoReceiverCheck(d, other) ==
    IF other = EndOfDay THEN TRUE
    ELSE d < other

Before(d, other) ==
    IF d = EndOfDay THEN FALSE
    ELSE IF other = EndOfDay THEN TRUE
    ELSE d < other

After(d, other) == Before(other, d)

Equal(d, other) == d = other

\* the two outcomes of the Before test exchanged
CompareSwapped(d, other) ==
    IF d = other THEN 0
    ELSE IF Before(d, other) THEN 1
    ELSE -1

Compare(d, other) ==
    IF d = other THEN 0
    ELSE IF Before(d, other) THEN -1
    ELSE 1

\* the end of a normal interval excluded
BetweenOpenEnd(d, start, end) ==
    IF ~Valid(d) \/ ~Valid(start) \/ ~Valid(end) THEN FALSE
    ELSE IF start = end THEN d = start
    ELSE IF Before(start, end) THEN ~Before(d, start) /\ Before(d, end)
    ELSE ~Before(d, start) \/ ~After(d, end)

\* the interval from EndOfDay to StartOfDay taken for the whole day
BetweenDegenerateWholeDay(d, start, end) ==
    IF ~Valid(d) \/ ~Valid(start) \/ ~Valid(end) THEN FALSE
    ELSE IF start = end THEN d = start
    ELSE IF Before(start, end) THEN ~Before(d, start) /\ ~After(d, end)
    ELSE IF start = EndOfDay /\ end = StartOfDay THEN TRUE
    ELSE ~Before(d, start) \/ ~After(d, end)

\* the wraparound branch joined with "and" instead of "or"
BetweenWrapAnd(d, start, end) ==
    IF ~Valid(d) \/ ~Valid(start) \/ ~Valid(end) THEN FALSE
    ELSE IF start = end THEN d = start
    ELSE IF Before(start, end) THEN ~Before(d, start) /\ ~After(d, end)
    ELSE ~Before(d, start) /\ ~After(d, end)

\* the start excluded in the wraparound branch
BetweenWrapOpenStart(d, start, end) ==
    IF ~Valid(d) \/ ~Valid(start) \/ ~Valid(end) THEN FALSE
    ELSE IF start = end THEN d = start
    ELSE IF Before(start, end) THEN ~Before(d, start) /\ ~After(d, end)
    ELSE After(d, start) \/ ~After(d, end)

Between(d, start, end) ==
    IF ~Valid(d) \/ ~Valid(start) \/ ~Valid(end) THEN FALSE
    ELSE IF start = end THEN d = start
    ELSE IF Before(start, end) THEN ~Before(d, start) /\ ~After(d, end)
    ELSE ~Before(d, start) \/ ~After(d, end)

(***************************************************************************)
(* Arithmetic.                                                             *)
(***************************************************************************)
\* the negative remainder adjusted without decrementing days
AddNoDayDecrement(d, seconds) ==
    IF ~Valid(d) THEN [daytime |-> d, days |-> 0]
    ELSE
        LET total == d + seconds
            days0 == Quo(total, secondsInDay)
            rem0 == Rem(total, secondsInDay)
            remainder == IF rem0 < 0 THEN rem0 + secondsInDay ELSE rem0
        IN  IF total = secondsInDay THEN [daytime |-> EndOfDay, days |-> 0]
            ELSE IF remainder = 0 THEN [daytime |-> StartOfDay, days |-> days0]
            ELSE [daytime |-> remainder, days |-> days0]

\* the negative remainder of Go's % left as it is
AddNoRemainderAdjust(d, seconds) ==
    IF ~Valid(d) THEN [daytime |-> d, days |-> 0]
    ELSE
        LET total == d + seconds
            days == Quo(total, secondsInDay)
            remainder == Rem(total, secondsInDay)
        IN  IF total = secondsInDay THEN [daytime |-> EndOfDay, days |-> 0]
            ELSE IF remainder = 0 THEN [daytime |-> StartOfDay, days |-> days]
            ELSE [daytime |-> remainder, days |-> days]

Add(d, seconds) ==
    IF ~Valid(d) THEN [daytime |-> d, days |-> 0]
    ELSE
        LET total == d + seconds
            days0 == Quo(total, secondsInDay)
            rem0 == Rem(total, secondsInDay)
            remainder == IF rem0 < 0 THEN rem0 + secondsInDay ELSE rem0
            days == IF rem0 < 0 THEN days0 - 1 ELSE days0
        IN  IF total = secondsInDay THEN [daytime |-> EndOfDay, days |-> 0]
            ELSE IF remainder = 0 THEN [daytime |-> StartOfDay, days |-> days]
            ELSE [daytime |-> remainder, days |-> days]

\* the negation of the argument forgotten
SubNoNegation(d, seconds) == Add(d, seconds)

Sub(d, seconds) == Add(d, -seconds)

\* the remainder left as Go's truncated remainder plus a day, days as truncated
DiffNoDayDecrement(d, other) ==
    IF ~Valid(d) \/ ~Valid(other) THEN [seconds |-> 0, days |-> 0]
    ELSE
        LET baseSeconds == IF d = EndOfDay /\ d # other THEN secondsInDay ELSE d
            otherSeconds == IF other = EndOfDay /\ d # other THEN secondsInDay ELSE other
            diff == baseSeconds - otherSeconds
            days0 == Quo(diff, secondsInDay)
            seconds0 == Rem(diff, secondsInDay)
        IN  IF seconds0 < 0
            THEN [seconds |-> seconds0 + secondsInDay, days |-> days0]
            ELSE [seconds |-> seconds0, days |-> days0]

\* EndOfDay counted as zero seconds
DiffEndOfDayAsZero(d, other) ==
    IF ~Valid(d) \/ ~Valid(other) THEN [seconds |-> 0, days |-> 0]
    ELSE
        LET baseSeconds == IF d = EndOfDay THEN 0 ELSE d
            otherSeconds == IF other = EndOfDay THEN 0 ELSE other
            diff == baseSeconds - otherSeconds
            days0 == Quo(diff, secondsInDay)
            seconds0 == Rem(diff, secondsInDay)
        IN  IF seconds0 < 0
            THEN [seconds |-> seconds0 + secondsInDay, days |-> days0 - 1]
            ELSE [seconds |-> seconds0, days |-> days0]

Diff(d, other) ==
    IF ~Valid(d) \/ ~Valid(other) THEN [seconds |-> 0, days |-> 0]
    ELSE
        LET baseSeconds == IF d = EndOfDay /\ d # other THEN secondsInDay ELSE d
            otherSeconds == IF other = EndOfDay /\ d # other THEN secondsInDay ELSE other
            diff == baseSeconds - otherSeconds
            days0 == Quo(diff, secondsInDay)
            seconds0 == Rem(diff, secondsInDay)
        IN  IF seconds0 < 0
            THEN [seconds |-> seconds0 + secondsInDay, days |-> days0 - 1]
            ELSE [seconds |-> seconds0, days |-> days0]

\* the validity check of the receiver left out
MulNoValidCheck(d, factor) ==
    LET total == d * factor
        days0 == Quo(total, secondsInDay)
        rem0 == Rem(total, secondsInDay)
        remainder == IF rem0 < 0 THEN rem0 + secondsInDay ELSE rem0
        days == IF rem0 < 0 THEN days0 - 1 ELSE days0
    IN  IF total = secondsInDay THEN [daytime |-> EndOfDay, days |-> 0]
        ELSE IF remainder = 0 THEN [daytime |-> StartOfDay, days |-> days]
        ELSE [daytime |-> remainder, days |-> days]

\* the exact-one-day case left out: a total of 86400 wraps to StartOfDay
MulNoEndOfDay(d, factor) ==
    IF ~Valid(d) THEN [daytime |-> d, days |-> 0]
    ELSE
        LET total == d * factor
            days0 == Quo(total, secondsInDay)
            rem0 == Rem(total, secondsInDay)
            remainder == IF rem0 < 0 THEN rem0 + secondsInDay ELSE rem0
            days == IF rem0 < 0 THEN days0 - 1 ELSE days0
        IN  IF remainder = 0 THEN [daytime |-> StartOfDay, days |-> days]
            ELSE [daytime |-> remainder, days |-> days]

Mul(d, factor) ==
    IF ~Valid(d) THEN [daytime |-> d, days |-> 0]
    ELSE
        LET total == d * factor
            days0 == Quo(total, secondsInDay)
            rem0 == Rem(total, secondsInDay)
            remainder == IF rem0 < 0 THEN rem0 + secondsInDay ELSE rem0
            days == IF rem0 < 0 THEN days0 - 1 ELSE days0
        IN  IF total = secondsInDay THEN [daytime |-> EndOfDay, days |-> 0]
            ELSE IF remainder = 0 THEN [daytime |-> StartOfDay, days |-> days]
            ELSE [daytime |-> remainder, days |-> days]

\* the quotient and remainder taken by floored instead of truncated division
DivFloored(d, divisor) ==
    IF divisor = 0
    THEN [daytime |-> 0, remainder |-> 0,
          err |-> errorf("Div", divisor, ErrDivisionByZero)]
    ELSE IF ~Valid(d) THEN [daytime |-> d, remainder |-> 0, err |-> nil]
    ELSE
        LET value == IF d = EndOfDay THEN secondsInDay ELSE d
            quotient == IF divisor > 0 THEN value \div divisor
                        ELSE (-value) \div (-divisor)
            remainder == value - divisor * quotient
        IN  IF quotient < 0 \/ quotient > secondsInDay
            THEN [daytime |-> 0, remainder |-> 0,
                  err |-> errorf("Div", quotient, ErrValueOutOfRange)]
            ELSE [daytime |-> quotient, remainder |-> remainder, err |-> nil]

\* the range check of the quotient one too strict at both ends
DivStrictRange(d, divisor) ==
    IF divisor = 0
    THEN [daytime |-> 0, remainder |-> 0,
          err |-> errorf("Div", divisor, ErrDivisionByZero)]
    ELSE IF ~Valid(d) THEN [daytime |-> d, remainder |-> 0, err |-> nil]
    ELSE
        LET value == IF d = EndOfDay THEN secondsInDay ELSE d
            quotient == Quo(value, divisor)
            remainder == Rem(value, divisor)
        IN  IF quotient <= 0 \/ quotient >= secondsInDay
            THEN [daytime |-> 0, remainder |-> 0,
                  err |-> errorf("Div", quotient, ErrValueOutOfRange)]
            ELSE [daytime |-> quotient, remainder |-> remainder, err |-> nil]

\* the validity short-circuit made before the zero-divisor check
DivValidCheckFirst(d, divisor) ==
    IF ~Valid(d) THEN [daytime |-> d, remainder |-> 0, err |-> nil]
    ELSE IF divisor = 0
    THEN [daytime |-> 0, remainder |-> 0,
          err |-> errorf("Div", divisor, ErrDivisionByZero)]
    ELSE
        LET value == IF d = EndOfDay THEN secondsInDay ELSE d
            quotient == Quo(value, divisor)
            remainder == Rem(value, divisor)
        IN  IF quotient < 0 \/ quotient > secondsInDay
            THEN [daytime |-> 0, remainder |-> 0,
                  err |-> errorf("Div", quotient, ErrValueOutOfRange)]
            ELSE [daytime |-> quotient, remainder |-> remainder, err |-> nil]

Div(d, divisor) ==
    IF divisor = 0
    THEN [daytime |-> 0, remainder |-> 0,
          err |-> errorf("Div", divisor, ErrDivisionByZero)]
    ELSE IF ~Valid(d) THEN [daytime |-> d, remainder |-> 0, err |-> nil]
    ELSE
        LET value == IF d = EndOfDay THEN secondsInDay ELSE d
            quotient == Quo(value, divisor)
            remainder == Rem(value, divisor)
        IN  IF quotient < 0 \/ quotient > secondsInDay
            THEN [daytime |-> 0, remainder |-> 0,
                  err |-> errorf("Div", quotient, ErrValueOutOfRange)]
            ELSE [daytime |-> quotient, remainder |-> remainder, err |-> nil]

\* a modulus larger than a day rejected as well
ModRangeChecked(d, modulus) ==
    IF modulus <= 0 \/ modulus > secondsInDay
    THEN [daytime |-> 0, err |-> errorf("Mod", modulus, ErrInvalidModulus)]
    ELSE IF ~Valid(d) THEN [daytime |-> d, err |-> nil]
    ELSE
        LET value == IF d = EndOfDay THEN secondsInDay ELSE d
            result0 == Rem(value, modulus)
            result == IF result0 < 0 THEN result0 + modulus ELSE result0
        IN  [daytime |-> result, err |-> nil]

\* the error built under the name of the neighbouring operation
ModErrorNamedDiv(d, modulus) ==
    IF modulus <= 0
    THEN [daytime |-> 0, err |-> errorf("Div", modulus, ErrInvalidModulus)]
    ELSE IF ~Valid(d) THEN [daytime |-> d, err |-> nil]
    ELSE
        LET value == IF d = EndOfDay THEN secondsInDay ELSE d
            result0 == Rem(value, modulus)
            result == IF result0 < 0 THEN result0 + modulus ELSE result0
        IN  [daytime |-> result, err |-> nil]

Mod(d, modulus) ==
    IF modulus <= 0
    THEN [daytime |-> 0, err |-> errorf("Mod", modulus, ErrInvalidModulus)]
    ELSE IF ~Valid(d) THEN [daytime |-> d, err |-> nil]
    ELSE
        LET value == IF d = EndOfDay THEN secondsInDay ELSE d
            result0 == Rem(value, modulus)
            result == IF result0 < 0 THEN result0 + modulus ELSE result0
        IN  [daytime |-> result, err |-> nil]

(***************************************************************************)
(* The caller: one call per step.                                          *)
(***************************************************************************)
Init ==
    /\ cur \in DaytimeInputs
    /\ op = "init"
    /\ recv = cur
    /\ arg1 = 0
    /\ arg2 = 0
    /\ ret = [daytime |-> cur]
    /\ steps = 0

\* bookkeeping of a call on the held value
Call(name, a, b, r) ==
    /\ steps < MaxSteps
    /\ steps' = steps + 1
    /\ op' = name
    /\ recv' = cur
    /\ arg1' = a
    /\ arg2' = b
    /\ ret' = r

\* bookkeeping of a call of a function without receiver, which creates the
\* value the caller holds: it is the caller's first call
Create(name, a, r) ==
    /\ steps = 0
    /\ steps < MaxSteps
    /\ steps' = steps + 1
    /\ op' = name
    /\ recv' = StartOfDay
    /\ arg1' = a
    /\ arg2' = 0
    /\ ret' = r

DoNew ==
    \E hour \in HourInputs, minute \in MinuteInputs, second \in MinuteInputs :
        /\ Create("New", <<hour, minute, second>>, New(hour, minute, second))
        /\ cur' = ret'.daytime

DoAdd ==
    \E seconds \in SecondInputs :
        /\ Call("Add", seconds, 0, Add(cur, seconds))
        /\ cur' = ret'.daytime

DoSub ==
    \E seconds \in SecondInputs :
        /\ Call("Sub", seconds, 0, Sub(cur, seconds))
        /\ cur' = ret'.daytime

DoMul ==
    \E factor \in Factors :
        /\ Call("Mul", factor, 0, Mul(cur, factor))
        /\ cur' = ret'.daytime

DoDiff ==
    \E other \in DaytimeInputs :
        /\ Call("Diff", other, 0, Diff(cur, other))
        /\ cur' = cur

DoDiv ==
    \E divisor \in DivisorInputs :
        /\ Call("Div", divisor, 0, Div(cur, divisor))
        /\ cur' = ret'.daytime

DoMod ==
    \E modulus \in DivisorInputs :
        /\ Call("Mod", modulus, 0, Mod(cur, modulus))
        /\ cur' = ret'.daytime

DoBefore ==
    \E other \in DaytimeInputs :
        /\ Call("Before", other, 0, [bool |-> Before(cur, other)])
        /\ cur' = cur

DoCompare ==
    \E other \in DaytimeInputs :
        /\ Call("Compare", other, 0, [cmp |-> Compare(cur, other)])
        /\ cur' = cur

DoBetween ==
    \E start \in DaytimeInputs, end \in DaytimeInputs :
        /\ Call("Between", start, end, [bool |-> Between(cur, start, end)])
        /\ cur' = cur

DoParse ==
    \E t \in TextInputs :
        /\ Create("Parse", t, Parse(t))
        /\ cur' = ret'.daytime

DoParseTimeString ==
    \E t \in TextInputs :
        /\ Create("parseTimeString", t, parseTimeString(t))
        /\ cur' = cur

DoUnmarshalText ==
    \E t \in TextInputs :
        /\ Create("UnmarshalText", t, UnmarshalText(t))
        /\ cur' = ret'.daytime

DoString ==
    /\ Call("String", 0, 0, [text |-> String(cur)])
    /\ cur' = cur

DoClock ==
    /\ Call("Clock", 0, 0, Clock(cur))
    /\ cur' = cur

DoTime ==
    \E base \in BaseInputs :
        /\ Call("Time", base, 0, [time |-> Time(cur, base)])
        /\ cur' = cur

DoFromTime ==
    \E t \in TimestampInputs :
        /\ Create("FromTime", t, [daytime |-> FromTime(t)])
        /\ cur' = ret'.daytime

Next ==
    \/ DoAdd
    \/ DoSub
    \/ DoMul
    \/ DoDiff
    \/ DoDiv
    \/ DoMod
    \/ DoBefore
    \/ DoCompare
    \/ DoBetween
    \/ DoNew
    \/ DoParse
    \/ DoParseTimeString
    \/ DoUnmarshalText
    \/ DoString
    \/ DoClock
    \/ DoTime
    \/ DoFromTime

Spec == Init /\ [][Next]_vars

(***************************************************************************)
(* Properties.                                                             *)
(***************************************************************************)

\* C1: for a valid receiver d and T = d + seconds, Add(d, seconds) returns
\* (EndOfDay, 0) when T = 86400 and otherwise (T mod 86400, floor(T / 86400))
\* with floored division, a daytime in [0, 86399]; Sub(d, seconds) returns
\* what Add(d, -seconds) returns, i.e. the same with T = d - seconds.
C1_AddNormalizes ==
    (op \in {"Add", "Sub"} /\ Valid(recv)) =>
        LET T == IF op = "Add" THEN recv + arg1 ELSE recv - arg1
        IN  IF T = 86400
            THEN ret.daytime = EndOfDay /\ ret.days = 0
            ELSE /\ ret.daytime = T % 86400
                 /\ ret.days = T \div 86400
                 /\ ret.daytime \in 0..86399

\* C1 witness: an Add whose total is negative and not a multiple of a day
C1_Witness ==
    /\ op = "Add"
    /\ Valid(recv)
    /\ recv + arg1 < 0
    /\ (recv + arg1) % 86400 # 0
    /\ ret.days < 0

\* the round trip of C2 for the call in the state: subtracting what was added
\* gives the receiver back and the two day counts sum to zero
AddSubRoundTrip ==
    LET back == Sub(ret.daytime, arg1)
    IN  back.daytime = recv /\ ret.days + back.days = 0

\* C2 as stated: for every valid d and every s, Add(d, s) followed by
\* Add(result, -s) returns d and the day counts sum to zero.
C2_Original ==
    (op = "Add" /\ Valid(recv)) => AddSubRoundTrip

\* C2 amended: for a valid d the round trip returns d with day counts summing
\* to zero exactly when d is neither StartOfDay moved back by 1..86400 seconds
\* nor EndOfDay moved forward, or back by more than 86400 seconds.
C2_AddSubInverse ==
    (op = "Add" /\ Valid(recv)) =>
        (AddSubRoundTrip <=>
            /\ ~(recv = StartOfDay /\ arg1 \in -86400..-1)
            /\ ~(recv = EndOfDay /\ (arg1 > 0 \/ arg1 < -86400)))

\* C2 witness: a day boundary crossed from a value inside the day, and undone
C2_Witness ==
    /\ op = "Add"
    /\ recv \in 1..86399
    /\ ret.days # 0
    /\ AddSubRoundTrip

\* C3: for a valid receiver d and T = d * factor, Mul(d, factor) returns
\* (EndOfDay, 0) when T = 86400 and otherwise (T mod 86400, floor(T / 86400));
\* a negative factor with d > 0 gives a negative day count and Mul(d, 1)
\* returns (d, 0), EndOfDay included.
C3_MulNormalizes ==
    (op = "Mul" /\ Valid(recv)) =>
        LET T == recv * arg1
        IN  /\ IF T = 86400
               THEN ret.daytime = EndOfDay /\ ret.days = 0
               ELSE ret.daytime = T % 86400 /\ ret.days = T \div 86400
            /\ (arg1 < 0 /\ recv > 0) => ret.days < 0
            /\ arg1 = 1 => (ret.daytime = recv /\ ret.days = 0)

\* C3 witness: a product of exactly one day from a proper factor
C3_Witness ==
    /\ op = "Mul"
    /\ arg1 > 1
    /\ recv * arg1 = 86400
    /\ ret.daytime = EndOfDay

\* C4: for valid d and other, Diff(d, other) returns seconds in [0, 86399]
\* with seconds + 86400 * days = d - other; Diff(EndOfDay, StartOfDay) is
\* (0, 1), Diff(StartOfDay, EndOfDay) is (0, -1) and Diff(d, d) is (0, 0).
C4_DiffNormalizes ==
    (op = "Diff" /\ Valid(recv) /\ Valid(arg1)) =>
        /\ ret.seconds \in 0..86399
        /\ ret.seconds + 86400 * ret.days = recv - arg1
        /\ (recv = 86400 /\ arg1 = 0) => (ret.seconds = 0 /\ ret.days = 1)
        /\ (recv = 0 /\ arg1 = 86400) => (ret.seconds = 0 /\ ret.days = -1)
        /\ recv = arg1 => (ret.seconds = 0 /\ ret.days = 0)

\* C4 witness: a negative difference that is not a whole day
C4_Witness ==
    /\ op = "Diff"
    /\ Valid(recv)
    /\ Valid(arg1)
    /\ recv < arg1
    /\ ret.seconds > 0
    /\ ret.days = -1

\* C5: for a valid receiver and a positive divisor, Div succeeds and
\* quotient * divisor + remainder is the receiver's value, 0 <= remainder <
\* divisor.
C5_DivReconstructs ==
    (op = "Div" /\ Valid(recv) /\ arg1 > 0) =>
        /\ ret.err.err = "nil"
        /\ ret.daytime * arg1 + ret.remainder = recv
        /\ ret.remainder >= 0
        /\ ret.remainder < arg1

\* C5 witness: a division that leaves a remainder
C5_Witness ==
    /\ op = "Div"
    /\ Valid(recv)
    /\ arg1 > 1
    /\ ret.daytime > 0
    /\ ret.remainder > 0

\* C6 as stated: for every valid d > 0 and every divisor < 0, Div fails with
\* ValueOutOfRange.
C6_Original ==
    (op = "Div" /\ Valid(recv) /\ recv > 0 /\ arg1 < 0) =>
        ret.err.err = ErrValueOutOfRange

\* C6 amended: for a valid d > 0 and a divisor < 0, Div fails with
\* ValueOutOfRange (returning 0, 0) when -divisor <= d; when -divisor > d the
\* truncated quotient is 0 and Div succeeds with quotient 0 and remainder d.
C6_DivNegativeDivisor ==
    (op = "Div" /\ Valid(recv) /\ recv > 0 /\ arg1 < 0) =>
        IF -arg1 <= recv
        THEN /\ ret.err.err = ErrValueOutOfRange
             /\ ret.err.op = "Div"
             /\ ret.daytime = 0
             /\ ret.remainder = 0
        ELSE /\ ret.err.err = "nil"
             /\ ret.daytime = 0
             /\ ret.remainder = recv

\* C6 witness: a negative divisor, larger in magnitude than the value, accepted
C6_Witness ==
    /\ op = "Div"
    /\ Valid(recv)
    /\ recv > 0
    /\ arg1 < 0
    /\ -arg1 > recv
    /\ ret.err.err = "nil"

\* C7: Mod fails with InvalidModulus iff modulus <= 0; for a valid receiver
\* and modulus > 0 the result is the receiver's value mod modulus, lies in
\* [0, modulus - 1] and is Valid, also for a modulus above 86400.
C7_ModResult ==
    op = "Mod" =>
        /\ ret.err.err = ErrInvalidModulus <=> arg1 <= 0
        /\ (Valid(recv) /\ arg1 > 0) =>
              /\ ret.err.err = "nil"
              /\ ret.daytime = recv % arg1
              /\ ret.daytime \in 0..(arg1 - 1)
              /\ Valid(ret.daytime)

\* C7 witness: a modulus larger than a day leaves a positive value as it is
C7_Witness ==
    /\ op = "Mod"
    /\ Valid(recv)
    /\ recv > 0
    /\ arg1 > 86400
    /\ ret.err.err = "nil"
    /\ ret.daytime = recv

\* C8 as stated: for every pair of raw values a, b, valid or not,
\* Before(a, b) iff a < b.
C8_Original ==
    op = "Before" => (ret.bool <=> recv < arg1)

\* C8 amended: Before(a, b) iff a < b for every pair of raw values except
\* when one of them is EndOfDay and the other is invalid (above 86400):
\* there EndOfDay counts as the later one, against the raw order.
C8_BeforeRawOrder ==
    op = "Before" =>
        IF \/ (recv = EndOfDay /\ ~Valid(arg1))
           \/ (arg1 = EndOfDay /\ ~Valid(recv))
        THEN ret.bool <=> ~(recv < arg1)
        ELSE ret.bool <=> recv < arg1

\* C8 witness: an invalid value compared with EndOfDay
C8_Witness ==
    /\ op = "Before"
    /\ ~Valid(recv)
    /\ arg1 = EndOfDay
    /\ ret.bool

\* C9: Compare(d, d) = 0 for every d; over the valid values Compare is
\* antisymmetric and transitive, and Compare(EndOfDay, x) = 1 for every valid
\* x other than EndOfDay.
C9_CompareOrder ==
    op = "Compare" =>
        /\ recv = arg1 => ret.cmp = 0
        /\ (Valid(recv) /\ Valid(arg1)) =>
              /\ ret.cmp \in {-1, 0, 1}
              /\ ret.cmp = -Compare(arg1, recv)
              /\ ret.cmp = 0 => recv = arg1
              /\ \A c \in { x \in DaytimeInputs : Valid(x) } :
                    /\ (ret.cmp = -1 /\ Compare(arg1, c) = -1) =>
                           Compare(recv, c) = -1
                    /\ (ret.cmp <= 0 /\ Compare(arg1, c) <= 0) =>
                           Compare(recv, c) <= 0
              /\ (recv = EndOfDay /\ arg1 # EndOfDay) => ret.cmp = 1

\* C9 witness: EndOfDay compared with StartOfDay
C9_Witness ==
    /\ op = "Compare"
    /\ recv = EndOfDay
    /\ arg1 = StartOfDay
    /\ ret.cmp = 1

\* C10: for valid start > end and valid d, Between(d, start, end) equals
\* ~Before(d, start) \/ ~After(d, end): d is a member iff d >= start or
\* d <= end, both endpoints included.
C10_BetweenWraparound ==
    (op = "Between" /\ Valid(recv) /\ Valid(arg1) /\ Valid(arg2) /\ arg1 > arg2) =>
        /\ ret.bool <=> (~Before(recv, arg1) \/ ~After(recv, arg2))
        /\ ret.bool <=> (recv >= arg1 \/ recv <= arg2)

\* C10 witness: a member on the far side of midnight of a wrapping interval
C10_Witness ==
    /\ op = "Between"
    /\ Valid(recv)
    /\ Valid(arg1)
    /\ arg1 > arg2
    /\ recv < arg2
    /\ ret.bool

\* C11: for start <= end in raw order, Between(d, start, end) is true iff d,
\* start and end are all valid and start <= d <= end (for start = end exactly
\* d = start); whenever one of the three is invalid Between is false, whatever
\* the order of start and end.
C11_BetweenClosedInterval ==
    op = "Between" =>
        /\ arg1 <= arg2 =>
              (ret.bool <=>
                  /\ recv <= 86400 /\ arg1 <= 86400 /\ arg2 <= 86400
                  /\ arg1 <= recv
                  /\ recv <= arg2)
        /\ arg1 = arg2 => (ret.bool <=> (recv <= 86400 /\ recv = arg1))
        /\ (recv > 86400 \/ arg1 > 86400 \/ arg2 > 86400) => ~ret.bool

\* C11 witness: the end of a normal interval is a member
C11_Witness ==
    /\ op = "Between"
    /\ arg1 < arg2
    /\ recv = arg2
    /\ ret.bool

\* C12: for every valid d, Between(d, EndOfDay, StartOfDay) is true iff d is
\* StartOfDay or EndOfDay.
C12_BetweenDegenerateWrap ==
    (op = "Between" /\ Valid(recv) /\ arg1 = 86400 /\ arg2 = 0) =>
        (ret.bool <=> recv \in {0, 86400})

\* C12 witness: the middle of the day is outside the interval from EndOfDay to
\* StartOfDay
C12_Witness ==
    /\ op = "Between"
    /\ arg1 = EndOfDay
    /\ arg2 = StartOfDay
    /\ recv = 43200
    /\ ~ret.bool

NewInputOk ==
    /\ arg1[1] \in 0..24
    /\ arg1[2] \in 0..59
    /\ arg1[3] \in 0..59
    /\ ~(arg1[1] = 24 /\ (arg1[2] # 0 \/ arg1[3] # 0))

\* C15: for hour in [0,24], minute and second in [0,59] and not hour 24 with
\* a non-zero minute or second, New returns no error and the value
\* hour*3600 + minute*60 + second, which is Valid and is EndOfDay iff
\* hour = 24.
C15_NewValue ==
    (op = "New" /\ NewInputOk) =>
        /\ ret.err.err = "nil"
        /\ ret.daytime = arg1[1] * 3600 + arg1[2] * 60 + arg1[3]
        /\ ret.daytime \in 0..86400
        /\ ret.daytime = 86400 <=> arg1[1] = 24
        /\ cur = ret.daytime

\* C15 witness: the last second of the day
C15_Witness ==
    /\ op = "New"
    /\ arg1 = <<23, 59, 59>>
    /\ ret.daytime = 86399

\* C16: New fails with InvalidTimeComponent iff a component is out of range,
\* this check coming first; it fails with EndOfDayExceeded iff all components
\* are in range and hour = 24 with a non-zero minute or second; on every
\* failure the returned Daytime is 0.
C16_NewErrors ==
    op = "New" =>
        LET inRange == arg1[1] \in 0..24 /\ arg1[2] \in 0..59 /\ arg1[3] \in 0..59
        IN  /\ ret.err.err = ErrInvalidTimeComponent <=> ~inRange
            /\ ret.err.err = ErrEndOfDayExceeded <=>
                  (inRange /\ arg1[1] = 24 /\ (arg1[2] # 0 \/ arg1[3] # 0))
            /\ ret.err.err # "nil" => (ret.daytime = 0 /\ ret.err.op = "New")
            /\ ret.err.err \in {"nil", ErrInvalidTimeComponent, ErrEndOfDayExceeded}

\* C16 witness: hour 24 with a minute out of range fails the range check
C16_Witness ==
    /\ op = "New"
    /\ arg1 = <<24, 60, 0>>
    /\ ret.err.err = ErrInvalidTimeComponent

IsClockText(t) ==
    /\ Len(t) = 8
    /\ t[3] = ":"
    /\ t[6] = ":"
    /\ \A i \in {1, 2, 4, 5, 7, 8} : t[i] \in {"0", "1", "2", "3", "4", "5", "6", "7", "8", "9"}

\* the number written by the two digits of a clock text at i and i + 1
FieldOf(t, i) ==
    LET v(c) == CASE c = "0" -> 0 [] c = "1" -> 1 [] c = "2" -> 2 [] c = "3" -> 3
                  [] c = "4" -> 4 [] c = "5" -> 5 [] c = "6" -> 6 [] c = "7" -> 7
                  [] c = "8" -> 8 [] c = "9" -> 9
    IN  10 * v(t[i]) + v(t[i + 1])

\* C17 as stated: for a text in HH:MM:SS form the error returned by Parse has
\* root cause InvalidTimeComponent when a component is out of range and
\* EndOfDayExceeded when the hour is 24 with a non-zero minute or second.
C17_Original ==
    (op = "Parse" /\ IsClockText(arg1)) =>
        LET hour == FieldOf(arg1, 1)
            minute == FieldOf(arg1, 4)
            second == FieldOf(arg1, 7)
            inRange == hour <= 24 /\ minute <= 59 /\ second <= 59
        IN  /\ ~inRange => ret.err.err = ErrInvalidTimeComponent
            /\ (inRange /\ hour = 24 /\ (minute # 0 \/ second # 0)) =>
                   ret.err.err = ErrEndOfDayExceeded

\* a text that is a base-10 integer literal: digits, after an optional sign
IsIntegerText(t) ==
    LET body == IF t # <<>> /\ t[1] \in {"+", "-"} THEN Tail(t) ELSE t
    IN  /\ body # <<>>
        /\ \A i \in 1..Len(body) :
              body[i] \in {"0", "1", "2", "3", "4", "5", "6", "7", "8", "9"}

RECURSIVE IntegerOf(_)
\* the value of an integer text, read from its last digit
IntegerOf(t) ==
    IF t[1] = "-" THEN -IntegerOf(Tail(t))
    ELSE IF t[1] = "+" THEN IntegerOf(Tail(t))
    ELSE IF Len(t) = 1 THEN FieldOf(<<"0">> \o t, 1)
    ELSE 10 * IntegerOf(SubSeq(t, 1, Len(t) - 1)) + FieldOf(<<"0", t[Len(t)]>>, 1)

\* C18: for every text that is a base-10 integer literal with value n in
\* [0, 86400] Parse returns Daytime(n) and no error; the empty text fails
\* with InvalidFormat.
C18_ParseIntegerSeconds ==
    op = "Parse" =>
        /\ (IsIntegerText(arg1) /\ IntegerOf(arg1) \in 0..86400) =>
              (ret.err.err = "nil" /\ ret.daytime = IntegerOf(arg1) /\ cur = ret.daytime)
        /\ arg1 = <<>> =>
              (ret.err.err = ErrInvalidFormat /\ ret.err.op = "Parse" /\ ret.daytime = 0)

\* C18 witness: the text 86400 gives EndOfDay
C18_Witness ==
    /\ op = "Parse"
    /\ arg1 = <<"8", "6", "4", "0", "0">>
    /\ ret.daytime = EndOfDay
    /\ ret.err.err = "nil"

\* C19 as stated: parseTimeString accepts only texts of exactly 8 characters
\* made of three two-digit fields separated by colons; every looser text is
\* rejected, also when its length is 8.
C19_Original ==
    (op = "parseTimeString" /\ ~IsClockText(arg1)) => ret.err.err # "nil"

\* C20: for every valid d, String(d) is the zero-padded HH:MM:SS text,
\* 24:00:00 for EndOfDay, and parsing it back (UnmarshalText, the two-strategy
\* Parse) yields d and no error; every invalid d renders as "invalid".
C20_StringRoundTrip ==
    op = "String" =>
        IF recv <= 86400
        THEN /\ IsClockText(ret.text)
             /\ FieldOf(ret.text, 1) * 3600 + FieldOf(ret.text, 4) * 60
                    + FieldOf(ret.text, 7) = recv
             /\ FieldOf(ret.text, 4) <= 59
             /\ FieldOf(ret.text, 7) <= 59
             /\ recv = 86400 => ret.text = <<"2", "4", ":", "0", "0", ":", "0", "0">>
             /\ Parse(ret.text).err.err = "nil"
             /\ Parse(ret.text).daytime = recv
             /\ UnmarshalText(ret.text).err.err = "nil"
             /\ UnmarshalText(ret.text).daytime = recv
        ELSE ret.text = <<"i", "n", "v", "a", "l", "i", "d">>

\* C20 witness: a value with single-digit minute and second, which need the
\* zero padding
C20_Witness ==
    /\ op = "String"
    /\ recv = 43201
    /\ ret.text = <<"1", "2", ":", "0", "0", ":", "0", "1">>

\* C24: Div with divisor 0 fails with DivisionByZero and returns Daytime 0 and
\* remainder 0 for every receiver, valid or not; Mod with modulus <= 0 fails
\* with InvalidModulus for every receiver, valid or not.
C24_ArgumentCheckFirst ==
    /\ (op = "Div" /\ arg1 = 0) =>
          /\ ret.err.err = ErrDivisionByZero
          /\ ret.err.op = "Div"
          /\ ret.daytime = 0
          /\ ret.remainder = 0
    /\ (op = "Mod" /\ arg1 <= 0) =>
          /\ ret.err.err = ErrInvalidModulus
          /\ ret.err.op = "Mod"
          /\ ret.daytime = 0

\* C24 witness: an invalid receiver divided by zero
C24_Witness ==
    /\ op = "Div"
    /\ ~Valid(recv)
    /\ arg1 = 0
    /\ ret.err.err = ErrDivisionByZero

\* C25: for every valid d, Clock(d) returns hour in [0,24], minute and second
\* in [0,59] with hour*3600 + minute*60 + second = d, and (24,0,0) exactly for
\* EndOfDay; New of these components returns d without error.
C25_ClockComponents ==
    (op = "Clock" /\ Valid(recv)) =>
        /\ ret.hour \in 0..24
        /\ ret.minute \in 0..59
        /\ ret.second \in 0..59
        /\ ret.hour * 3600 + ret.minute * 60 + ret.second = recv
        /\ (ret.hour = 24 /\ ret.minute = 0 /\ ret.second = 0) <=> recv = EndOfDay
        /\ New(ret.hour, ret.minute, ret.second).err.err = "nil"
        /\ New(ret.hour, ret.minute, ret.second).daytime = recv

\* C25 witness: the last second of the day has the components 23, 59, 59
C25_Witness ==
    /\ op = "Clock"
    /\ recv = 86399
    /\ ret.hour = 23
    /\ ret.minute = 59
    /\ ret.second = 59

\* C26: on a valid receiver every Daytime returned by Add, Sub or Mul, or by
\* a Div or Mod that returns no error, is in [0, 86400], and it is the value
\* the caller holds for its next call: no sequence of arithmetic calls that
\* starts from a valid value reaches an invalid one.
C26_ValidClosure ==
    /\ (op \in {"Add", "Sub", "Mul"} /\ recv \in 0..86400) =>
          (ret.daytime \in 0..86400 /\ cur = ret.daytime)
    /\ (op \in {"Div", "Mod"} /\ recv \in 0..86400 /\ ret.err.err = "nil") =>
          (ret.daytime \in 0..86400 /\ cur = ret.daytime)

\* C26 witness: a subtraction that goes below the start of the day
C26_Witness ==
    /\ op = "Sub"
    /\ recv = 1
    /\ arg1 > 86400
    /\ ret.daytime \in 1..86399

\* C27: for all valid d and other, with (s, k) = Diff(d, other), Add(other,
\* s + 86400*k) returns the daytime d exactly, StartOfDay and EndOfDay told
\* apart.
C27_DiffAddAgree ==
    (op = "Diff" /\ Valid(recv) /\ Valid(arg1)) =>
        Add(arg1, ret.seconds + 86400 * ret.days).daytime = recv

\* C27 witness: the whole day between StartOfDay and EndOfDay
C27_Witness ==
    /\ op = "Diff"
    /\ recv = EndOfDay
    /\ arg1 = StartOfDay
    /\ ret.seconds = 0
    /\ ret.days = 1

\* C28: for all valid start # end and every valid d, Between(d, start, end)
\* or Between(d, end, start) holds, and both hold iff d = start or d = end.
C28_IntervalAndReverse ==
    (/\ op = "Between"
     /\ Valid(recv) /\ Valid(arg1) /\ Valid(arg2)
     /\ arg1 # arg2) =>
        /\ ret.bool \/ Between(recv, arg2, arg1)
        /\ (ret.bool /\ Between(recv, arg2, arg1)) <=> (recv = arg1 \/ recv = arg2)

\* C28 witness: the start of an interval that spans midnight lies in the
\* interval and in its reverse
C28_Witness ==
    /\ op = "Between"
    /\ recv = 86399
    /\ arg1 = 86399
    /\ arg2 = 1
    /\ ret.bool

\* exactly one of three conditions
ExactlyOne(p, q, r) ==
    \/ p /\ ~q /\ ~r
    \/ ~p /\ q /\ ~r
    \/ ~p /\ ~q /\ r

\* C29: over all raw Daytime values, valid or not, exactly one of
\* Before(a, b), Equal(a, b), After(a, b) holds, Before is transitive,
\* Before(x, EndOfDay) holds for every x # EndOfDay, and Compare(a, b) is
\* -1, 0, +1 exactly in those three cases.
C29_TotalOrder ==
    /\ op = "Before" =>
          /\ ExactlyOne(ret.bool, Equal(recv, arg1), After(recv, arg1))
          /\ ret.bool =>
                \A c \in DaytimeInputs : Before(arg1, c) => Before(recv, c)
          /\ (arg1 = EndOfDay /\ recv # EndOfDay) => ret.bool
    /\ op = "Compare" =>
          /\ ret.cmp \in {-1, 0, 1}
          /\ ret.cmp = -1 <=> Before(recv, arg1)
          /\ ret.cmp = 0 <=> Equal(recv, arg1)
          /\ ret.cmp = 1 <=> After(recv, arg1)

\* C29 witness: an invalid value is before EndOfDay
C29_Witness ==
    /\ op = "Before"
    /\ recv > 86400
    /\ arg1 = EndOfDay
    /\ ret.bool

\* the six root-cause categories
Sentinels ==
    { ErrDivisionByZero, ErrInvalidTimeComponent, ErrInvalidFormat,
      ErrValueOutOfRange, ErrInvalidModulus, ErrEndOfDayExceeded }

\* the input an error of the call is about: the components of New as text,
\* the text of Parse, the divisor of Div, the modulus of Mod
OffendingInput ==
    IF op = "New" THEN FormatClock(arg1[1], arg1[2], arg1[3]) ELSE arg1

\* C23 as stated: every error returned by New, Parse, Div or Mod names the
\* operation called, carries the offending input as its value and wraps
\* exactly one of the six sentinels.
C23_Original ==
    (op \in {"New", "Parse", "Div", "Mod"} /\ ret.err.err # "nil") =>
        /\ ret.err.op = op
        /\ ret.err.value = OffendingInput
        /\ ret.err.err \in Sentinels

\* C23 amended: every such error names the operation called and wraps exactly
\* one of the six sentinels; its value is the offending input, except for a
\* Div whose quotient is out of range, where it is that quotient.
C23_StructuredErrors ==
    (op \in {"New", "Parse", "Div", "Mod"} /\ ret.err.err # "nil") =>
        /\ ret.err.op = op
        /\ ret.err.err \in Sentinels
        /\ IF op = "Div" /\ ret.err.err = ErrValueOutOfRange
           THEN ret.err.value = Quo(recv, arg1)
           ELSE ret.err.value = OffendingInput

\* C23 witness: a Div whose quotient is negative and differs from the divisor
C23_Witness ==
    /\ op = "Div"
    /\ ret.err.err = ErrValueOutOfRange
    /\ ret.err.value < 0
    /\ ret.err.value # arg1

\* C21 as stated: for d = EndOfDay, Time(d, base) is midnight of the calendar
\* day after base's date, in base's location; for every other valid d it is
\* base's calendar date at d's hour, minute and second, in base's location;
\* base's time of day plays no part.
C21_Original ==
    (op = "Time" /\ Valid(recv)) =>
        /\ ret.time[2] = arg1[2]
        /\ localSeconds(ret.time) =
              IF recv = EndOfDay THEN (timeDate(arg1) + 1) * secondsInDay
              ELSE timeDate(arg1) * secondsInDay + recv

\* C22 as stated: FromTime returns hour*3600 + minute*60 + second of the wall
\* clock of its timestamp, always in [0, 86399]; FromTime(Time(EndOfDay,
\* base)) is StartOfDay, and in a location without clock changes
\* FromTime(Time(d, base)) is d for every d in [0, 86399].
C22_Original ==
    /\ op = "FromTime" =>
          /\ ret.daytime = localSeconds(arg1) % secondsInDay
          /\ ret.daytime \in 0..86399
          /\ cur = ret.daytime
    /\ (op = "Time" /\ recv = EndOfDay) => FromTime(ret.time) = StartOfDay
    /\ (op = "Time" /\ recv \in 0..86399 /\ ~ClockChanges(arg1[2])) =>
          FromTime(ret.time) = recv

====
